---- MODULE Spec2Model ----
(***************************************************************************)
(* Model of src/web/login-qr.ts: the process-wide login attempt            *)
(* (activeLogin), the two public operations startWebLoginWithQr and        *)
(* waitForWebLogin, and the transport events they race with.               *)
(*                                                                         *)
(* Each public call is a process whose position (pc) is the await it is    *)
(* suspended on.  The collaborators (createWaSocket, waitForWaConnection,  *)
(* webAuthExists, logoutWeb, renderQrPngBase64, the timers, the socket's   *)
(* QR events) are the environment: each completion is an event of the      *)
(* event loop, and events come at any moment, in any order.  An action is  *)
(* one event together with the code it makes run.  Code that becomes       *)
(* runnable through a promise settled by that code itself (a call resumed  *)
(* after `await resetActiveLogin()`, a call resumed because qrPromise or   *)
(* login.waitPromise settled) runs before the next event: WaitSettled and  *)
(* StartQrSettled are such resumptions, and no event is taken while one   *)
(* of them is due (Quiet).                                                 *)
(*                                                                         *)
(* Time: Date.now() is the variable now, advanced by Tick in steps of      *)
(* TickMs.  The timers (qrTimer, the poll deadline) have caller-chosen     *)
(* lengths with floors of 5000 ms and 1000 ms, far below TickMs, so a      *)
(* timer may fire between any two clock values: firing is nondeterministic.*)
(*                                                                         *)
(* Spec is every interleaving of the calls and the events.  FairSpec adds  *)
(* that what a call in progress awaits eventually happens.  SeqSpec is the *)
(* executions in which public calls do not overlap.                        *)
(***************************************************************************)
EXTENDS Integers, Sequences, FiniteSets, TLC

\* ---------------------------------------------------------------- bounds
NStart == 2          \* number of startWebLoginWithQr calls
NWait == 2           \* number of waitForWebLogin calls
MaxCalls == 3        \* public calls issued in one run
MaxRestartSocks == 2 \* sockets the restart path may open in one run
MaxQrPerSock == 1    \* linking codes one socket emits
MaxTicks == 1        \* clock values after 0
TickMs == 180000     \* length of one clock step

\* ------------------------------------------------------- program constants
ACTIVE_LOGIN_TTL_MS == 3 * 60000
LoggedOut == 401     \* DisconnectReason.loggedOut
RestartRequired == 515
NoStatus == 0        \* errorStatus undefined

Starts == 1..NStart
Waits == 1..NWait
\* Socket s (s \in Starts) is the one start call s opens; the restart path
\* takes the next unused socket above NStart.
Socks == 1..(NStart + MaxRestartSocks)
NoLogin == 0
NoSock == 0
NoQr == <<>>
NoArtifact == <<>>
NoError == <<>>

\* Rejections of the ready signal (waitForWaConnection) and of createWaSocket.
ConnErrs == {[kind |-> "conn", status |-> c] : c \in {LoggedOut, RestartRequired, 408}}
OpenErr == [kind |-> "open", status |-> NoStatus]

formatError(err) == <<"error", err.kind, err.status>>
getStatusCode(err) == err.status
renderQrPngBase64(qr) == <<"png", qr>>
QrDataUrl(qr) == <<"data:image/png;base64">> \o renderQrPngBase64(qr)

VARIABLES
  activeLogin,  \* id of the attempt in the singleton slot, or NoLogin
  logins,       \* the ActiveLogin objects, by id (id = the start call that made it)
  sockState,    \* per socket: "none", "opening", "open", "closed", "failed"
  waiter,       \* per socket: the attempt whose continuation is attached, or NoLogin
  settled,      \* per socket: login.waitPromise made for it has resolved
  readyOk,      \* per socket: its ready signal fulfilled
  qrEmitted,    \* per socket: linking codes emitted so far
  qrInTime,     \* per start call: onQr was invoked while its qrTimer was armed
  creds,        \* webAuthExists()
  optsForce,    \* opts.force of the latest startWebLoginWithQr call
  now,          \* Date.now()
  spc, qrPromise, qrTimer, sresult,         \* start calls
  wpc, wlogin, wrace, wsock, wresult,       \* wait calls
  reopens       \* per attempt: createWaSocket calls made by restartLoginSocket

vars == <<activeLogin, logins, sockState, waiter, settled, readyOk, qrEmitted, qrInTime,
          creds, optsForce, now, spc, qrPromise, qrTimer, sresult,
          wpc, wlogin, wrace, wsock, wresult, reopens>>

shared == <<activeLogin, logins, sockState>>
startVars == <<spc, qrPromise, qrTimer, sresult>>
waitVars == <<wpc, wlogin, wrace, wsock, wresult>>
sockVars == <<waiter, settled, readyOk, qrEmitted>>

NoResult == [kind |-> "none"]
NoObject == [id |-> NoLogin]
NoPromise == [state |-> "none"]

\* ------------------------------------------------------------- helpers
\* The freshness test with <= for <.
isLoginFresh_Inclusive(login) == now - login.startedAt <= ACTIVE_LOGIN_TTL_MS

isLoginFresh(login) == now - login.startedAt < ACTIVE_LOGIN_TTL_MS

\* A close that does nothing.
closeSocket_Noop(ss, sock) == ss

\* closeSocket(sock): sock.ws?.close(), errors swallowed.
closeSocket(ss, sock) == [ss EXCEPT ![sock] = "closed"]

\* resetActiveLogin: the socket states after it; the slot becomes NoLogin.
\* lg: the attempt objects as they are when it is called.
resetActiveLogin(ss, lg) ==
  IF activeLogin # NoLogin THEN closeSocket(ss, lg[activeLogin].sock) ELSE ss

\* The reuse test with the freshness test inverted.
CanReuse_StaleOnly ==
  /\ activeLogin # NoLogin
  /\ ~isLoginFresh(logins[activeLogin])
  /\ logins[activeLogin].qrDataUrl # NoArtifact

\* The reuse test of start (line 117).
CanReuse ==
  /\ activeLogin # NoLogin
  /\ isLoginFresh(logins[activeLogin])
  /\ logins[activeLogin].qrDataUrl # NoArtifact

\* No resumption is due: no call waits on a promise that has settled.
Quiet ==
  /\ \A s \in Starts : spc[s] = "awaitQr" => qrPromise[s].state = "pending"
  /\ \A w \in Waits : wpc[w] = "racing" => ~settled[wrace[w]]

\* Public calls issued so far.
Issued ==
  Cardinality({s \in Starts : spc[s] # "idle"}) + Cardinality({w \in Waits : wpc[w] # "idle"})

NewLogin(s) ==
  [id |-> s, sock |-> s, startedAt |-> now, qr |-> NoQr, qrDataUrl |-> NoArtifact,
   connected |-> FALSE, error |-> NoError, errorStatus |-> NoStatus,
   waitPromise |-> s, restartAttempted |-> FALSE]

Init ==
  /\ activeLogin = NoLogin
  /\ logins = [a \in Starts |-> NoObject]
  /\ sockState = [h \in Socks |-> "none"]
  /\ waiter = [h \in Socks |-> NoLogin]
  /\ settled = [h \in Socks |-> FALSE]
  /\ readyOk = [h \in Socks |-> FALSE]
  /\ qrEmitted = [h \in Socks |-> 0]
  /\ qrInTime = [s \in Starts |-> FALSE]
  /\ creds \in BOOLEAN
  /\ optsForce = FALSE
  /\ now = 0
  /\ spc = [s \in Starts |-> "idle"]
  /\ qrPromise = [s \in Starts |-> NoPromise]
  /\ qrTimer = [s \in Starts |-> "off"]
  /\ sresult = [s \in Starts |-> NoResult]
  /\ wpc = [w \in Waits |-> "idle"]
  /\ wlogin = [w \in Waits |-> NoLogin]
  /\ wrace = [w \in Waits |-> NoSock]
  /\ wsock = [w \in Waits |-> NoSock]
  /\ wresult = [w \in Waits |-> NoResult]
  /\ reopens = [a \in Starts |-> 0]

\* ------------------------------------------------- startWebLoginWithQr
\* An already-linked test that never answers yes.
AlreadyLinked_Never(force) == FALSE

\* Lines 110-115: the already-linked test.
AlreadyLinked(force) == creds /\ ~force

\* Lines 99-150, up to `await createWaSocket`.  webAuthExists() answers with
\* the credentials as they are stored at that moment; the already-linked
\* check and the reuse check follow; else resetActiveLogin(), qrPromise and
\* qrTimer are made and createWaSocket is called with the onQr callback.
\* (The awaits of webAuthExists() and of resetActiveLogin() before
\* createWaSocket touch nothing another call can see.)  Calls are issued in
\* the order of their ids.
StartCall(s) ==
  /\ Quiet
  /\ spc[s] = "idle"
  /\ IF s = 1 THEN TRUE ELSE spc[s - 1] # "idle"
  /\ Issued < MaxCalls
  /\ \E force \in BOOLEAN :
       /\ optsForce' = force
       /\ IF AlreadyLinked(force)
            THEN /\ spc' = [spc EXCEPT ![s] = "done"]
                 /\ sresult' = [sresult EXCEPT ![s] = [kind |-> "alreadyLinked"]]
                 /\ UNCHANGED <<shared, qrPromise, qrTimer>>
            ELSE IF CanReuse
              THEN /\ spc' = [spc EXCEPT ![s] = "done"]
                   /\ sresult' = [sresult EXCEPT ![s] =
                        [kind |-> "reused", qrDataUrl |-> logins[activeLogin].qrDataUrl]]
                   /\ UNCHANGED <<shared, qrPromise, qrTimer>>
              ELSE /\ spc' = [spc EXCEPT ![s] = "opening"]
                   /\ sockState' = [resetActiveLogin(sockState, logins) EXCEPT ![s] = "opening"]
                   /\ activeLogin' = NoLogin
                   /\ qrPromise' = [qrPromise EXCEPT ![s] = [state |-> "pending"]]
                   /\ qrTimer' = [qrTimer EXCEPT ![s] = "armed"]
                   /\ UNCHANGED <<logins, sresult>>
  /\ UNCHANGED <<sockVars, qrInTime, creds, now, waitVars, reopens>>

\* attachLoginWaiter(login) (lines 60-73): waitForWaConnection(login.sock)
\* is subscribed with a continuation that remembers login.id.
attachLoginWaiter(wt, a, sock) == [wt EXCEPT ![sock] = a]

\* Lines 158-172: createWaSocket resolved; the attempt is created, installed
\* in the slot, the continuation attached; the call suspends on qrPromise.
StartInstall(s) ==
  /\ Quiet
  /\ spc[s] = "opening"
  /\ sockState[s] = "opening"
  /\ spc' = [spc EXCEPT ![s] = "awaitQr"]
  /\ sockState' = [sockState EXCEPT ![s] = "open"]
  /\ logins' = [logins EXCEPT ![s] = NewLogin(s)]
  /\ activeLogin' = s
  /\ waiter' = attachLoginWaiter(waiter, s, s)
  /\ UNCHANGED <<settled, readyOk, qrEmitted, qrInTime, creds, optsForce, now, qrPromise,
                 qrTimer, sresult, waitVars, reopens>>

\* createWaSocket rejected and nothing catches it: the call rejects.
StartOpenFailed_Throws(s) ==
  /\ Quiet
  /\ spc[s] = "opening"
  /\ sockState[s] = "opening"
  /\ spc' = [spc EXCEPT ![s] = "done"]
  /\ sresult' = [sresult EXCEPT ![s] = [kind |-> "threw"]]
  /\ qrPromise' = [qrPromise EXCEPT ![s] = NoPromise]
  /\ sockState' = [sockState EXCEPT ![s] = "failed"]
  /\ UNCHANGED <<activeLogin, logins, qrTimer, sockVars, qrInTime, creds, optsForce, now, waitVars,
                 reopens>>

\* Lines 151-157: createWaSocket rejected; clearTimeout, resetActiveLogin(),
\* and the failure message is returned.
StartOpenFailed(s) ==
  /\ Quiet
  /\ spc[s] = "opening"
  /\ sockState[s] = "opening"
  /\ spc' = [spc EXCEPT ![s] = "done"]
  /\ sresult' = [sresult EXCEPT ![s] = [kind |-> "failed", why |-> "open"]]
  /\ qrTimer' = [qrTimer EXCEPT ![s] = "off"]
  /\ qrPromise' = [qrPromise EXCEPT ![s] = NoPromise]
  /\ sockState' = [resetActiveLogin(sockState, logins) EXCEPT ![s] = "failed"]
  /\ activeLogin' = NoLogin
  /\ UNCHANGED <<logins, sockVars, qrInTime, creds, optsForce, now, waitVars, reopens>>

\* Lines 133-138: qrTimer fires: rejectQr (a settled promise stays as it is).
QrTimerFires(s) ==
  /\ Quiet
  /\ qrTimer[s] = "armed"
  /\ qrTimer' = [qrTimer EXCEPT ![s] = "off"]
  /\ qrPromise' = [qrPromise EXCEPT ![s] =
        IF @.state = "pending" THEN [state |-> "rejected"] ELSE @]
  /\ UNCHANGED <<shared, sockVars, qrInTime, creds, optsForce, now, spc, sresult, waitVars,
                 reopens>>

\* Lines 143-149: the onQr callback start call s gave to socket s.  The
\* code is recorded on whatever attempt is in the slot.
OnQrAccepts == activeLogin # NoLogin /\ logins[activeLogin].qr = NoQr

OnQr(s) ==
  /\ Quiet
  /\ sockState[s] \in {"opening", "open"}
  /\ qrEmitted[s] < MaxQrPerSock
  /\ qrEmitted' = [qrEmitted EXCEPT ![s] = @ + 1]
  /\ qrInTime' = [qrInTime EXCEPT ![s] = @ \/ qrTimer[s] = "armed"]
  /\ LET qr == <<s, qrEmitted[s] + 1>> IN
     IF OnQrAccepts
       THEN /\ logins' = [logins EXCEPT ![activeLogin].qr = qr]
            /\ qrTimer' = [qrTimer EXCEPT ![s] = "off"]
            /\ qrPromise' = [qrPromise EXCEPT ![s] =
                 IF @.state = "pending" THEN [state |-> "resolved", qr |-> qr] ELSE @]
       ELSE UNCHANGED <<logins, qrTimer, qrPromise>>
  /\ UNCHANGED <<activeLogin, sockState, waiter, settled, readyOk, creds, optsForce, now, spc,
                 sresult, waitVars, reopens>>

\* Lines 170-179: qrPromise settled.  Resolved: suspend on renderQrPngBase64.
\* Rejected: clearTimeout, resetActiveLogin(), the failure message is returned.
StartQrSettled(s) ==
  /\ spc[s] = "awaitQr"
  /\ qrPromise[s].state # "pending"
  /\ IF qrPromise[s].state = "resolved"
       THEN /\ spc' = [spc EXCEPT ![s] = "render"]
            /\ UNCHANGED <<shared, qrTimer, qrPromise, sresult>>
       ELSE /\ spc' = [spc EXCEPT ![s] = "done"]
            /\ sresult' = [sresult EXCEPT ![s] = [kind |-> "failed", why |-> "qr"]]
            /\ qrTimer' = [qrTimer EXCEPT ![s] = "off"]
            /\ qrPromise' = [qrPromise EXCEPT ![s] = NoPromise]
            /\ sockState' = resetActiveLogin(sockState, logins)
            /\ activeLogin' = NoLogin
            /\ UNCHANGED logins
  /\ UNCHANGED <<sockVars, qrInTime, creds, optsForce, now, waitVars, reopens>>

\* Lines 181-186: the artifact is stored on this call's own attempt object
\* and returned.
StartRendered(s) ==
  /\ Quiet
  /\ spc[s] = "render"
  /\ spc' = [spc EXCEPT ![s] = "done"]
  /\ logins' = [logins EXCEPT ![s].qrDataUrl = QrDataUrl(qrPromise[s].qr)]
  /\ sresult' = [sresult EXCEPT ![s] =
        [kind |-> "new", qrDataUrl |-> QrDataUrl(qrPromise[s].qr)]]
  /\ qrPromise' = [qrPromise EXCEPT ![s] = NoPromise]
  /\ UNCHANGED <<activeLogin, sockState, sockVars, qrInTime, creds, optsForce, now, qrTimer,
                 waitVars, reopens>>

\* ------------------------------------------ completion-signal continuation
\* A continuation that writes to the attempt it closed over, unguarded.
ContinuationTarget_Unguarded(a) == a

\* A continuation that never finds its attempt.
ContinuationTarget_Never(a) == NoLogin

\* Lines 62-72: the attempt the continuation attached for `a` writes to:
\* the slot's attempt if its id is a, else none.
ContinuationTarget(a) ==
  IF activeLogin # NoLogin /\ logins[activeLogin].id = a THEN activeLogin ELSE NoLogin

\* waitForWaConnection(sock) fulfils (the socket is connected and its
\* credentials are stored); lines 62-66 run; login.waitPromise resolves.
ReadyFulfils(h) ==
  /\ Quiet
  /\ waiter[h] # NoLogin
  /\ ~settled[h]
  /\ sockState[h] = "open"
  /\ settled' = [settled EXCEPT ![h] = TRUE]
  /\ readyOk' = [readyOk EXCEPT ![h] = TRUE]
  /\ creds' = TRUE
  /\ LET t == ContinuationTarget(waiter[h]) IN
       logins' = IF t # NoLogin THEN [logins EXCEPT ![t].connected = TRUE] ELSE logins
  /\ UNCHANGED <<activeLogin, sockState, waiter, qrEmitted, qrInTime, optsForce, now, startVars,
                 waitVars, reopens>>

\* waitForWaConnection(sock) rejects with err; lines 67-72 run;
\* login.waitPromise resolves (the catch handler swallows the rejection).
ReadyRejects(h) ==
  /\ Quiet
  /\ waiter[h] # NoLogin
  /\ ~settled[h]
  /\ settled' = [settled EXCEPT ![h] = TRUE]
  /\ \E err \in ConnErrs :
       LET t == ContinuationTarget(waiter[h]) IN
       logins' = IF t # NoLogin
                   THEN [logins EXCEPT ![t].error = formatError(err),
                                       ![t].errorStatus = getStatusCode(err)]
                   ELSE logins
  /\ UNCHANGED <<activeLogin, sockState, waiter, readyOk, qrEmitted, qrInTime, creds,
                 optsForce, now, startVars, waitVars, reopens>>

\* ------------------------------------------------------ waitForWebLogin
\* The awaited resetActiveLogin() (lines 202, 241, 252, 260) awaits nothing:
\* the call resumes in the same microtask drain, before any collaborator
\* settles, so each of these paths returns in the step that resets.
WaitResult(c, m) == [connected |-> c, message |-> m]
FailedMessage(login) == <<"WhatsApp login failed", login.error>>

\* The call has returned res: its locals are gone.
Returns(w, res) ==
  /\ wpc' = [wpc EXCEPT ![w] = "done"]
  /\ wresult' = [wresult EXCEPT ![w] = res]
  /\ wlogin' = [wlogin EXCEPT ![w] = NoLogin]
  /\ wrace' = [wrace EXCEPT ![w] = NoSock]
  /\ wsock' = [wsock EXCEPT ![w] = NoSock]

\* Lines 192-223, up to the first await.
WaitCall(w) ==
  /\ Quiet
  /\ wpc[w] = "idle"
  /\ IF w = 1 THEN TRUE ELSE wpc[w - 1] # "idle"
  /\ Issued < MaxCalls
  /\ IF activeLogin = NoLogin
       THEN /\ Returns(w, WaitResult(FALSE, <<"no active login">>))
            /\ UNCHANGED shared
       ELSE IF ~isLoginFresh(logins[activeLogin])
         THEN /\ Returns(w, WaitResult(FALSE, <<"expired">>))
              /\ sockState' = resetActiveLogin(sockState, logins)
              /\ activeLogin' = NoLogin
              /\ UNCHANGED logins
         ELSE /\ wpc' = [wpc EXCEPT ![w] = "racing"]
              /\ wlogin' = [wlogin EXCEPT ![w] = activeLogin]
              /\ wrace' = [wrace EXCEPT ![w] = logins[activeLogin].waitPromise]
              /\ UNCHANGED <<shared, wresult, wsock>>
  /\ UNCHANGED <<sockVars, qrInTime, creds, optsForce, now, startVars, reopens>>

\* A timeout path that disposes the attempt.
WaitTimeout_Disposes(w) ==
  /\ Quiet
  /\ wpc[w] = "racing"
  /\ ~settled[wrace[w]]
  /\ Returns(w, WaitResult(FALSE, <<"still waiting">>))
  /\ sockState' = resetActiveLogin(sockState, logins)
  /\ activeLogin' = NoLogin
  /\ UNCHANGED <<logins, sockVars, qrInTime, creds, optsForce, now, startVars, reopens>>

\* A deadline timer that never fires.
WaitTimeout_Never(w) == FALSE

\* Lines 228-234: the deadline timer wins the race.
WaitTimeout(w) ==
  /\ Quiet
  /\ wpc[w] = "racing"
  /\ ~settled[wrace[w]]
  /\ Returns(w, WaitResult(FALSE, <<"still waiting">>))
  /\ UNCHANGED <<shared, sockVars, qrInTime, creds, optsForce, now, startVars, reopens>>

\* A restart path that does not look at restartAttempted.
MayRestart_Always(login) == TRUE

\* restartLoginSocket's guard (line 76).
MayRestart(login) == ~login.restartAttempted

\* An outcome that takes a resolved promise without error for a connection.
Outcome_ConnectedUnlessError(login) ==
  IF login.error # NoError
    THEN IF login.errorStatus = LoggedOut THEN "loggedOut"
         ELSE IF login.errorStatus = RestartRequired /\ MayRestart(login) THEN "restart"
         ELSE "failed"
    ELSE "connected"

\* Lines 236-264: what the call does once the raced promise has resolved.
Outcome(login) ==
  IF login.error # NoError
    THEN IF login.errorStatus = LoggedOut THEN "loggedOut"
         ELSE IF login.errorStatus = RestartRequired /\ MayRestart(login) THEN "restart"
         ELSE "failed"
    ELSE IF login.connected THEN "connected" ELSE "ended"

\* The socket the next createWaSocket call of the restart path makes.
NextRestartSock ==
  NStart + 1 + Cardinality({h \in Socks : h > NStart /\ sockState[h] # "none"})

WaitSettled(w) ==
  /\ wpc[w] = "racing"
  /\ settled[wrace[w]]
  /\ LET a == wlogin[w]
         login == logins[a]
         o == Outcome(login) IN
     /\ o = "restart" => NextRestartSock \in Socks
     /\ CASE o = "loggedOut" ->
               \* line 238: suspend on logoutWeb
               /\ wpc' = [wpc EXCEPT ![w] = "logout"]
               /\ UNCHANGED <<shared, wresult, wlogin, wrace, wsock, reopens>>
          [] o = "restart" ->
               \* lines 77-85: mark, close the old socket, suspend on createWaSocket
               /\ wpc' = [wpc EXCEPT ![w] = "reopening"]
               /\ logins' = [logins EXCEPT ![a].restartAttempted = TRUE]
               /\ sockState' = [closeSocket(sockState, login.sock)
                                  EXCEPT ![NextRestartSock] = "opening"]
               /\ wsock' = [wsock EXCEPT ![w] = NextRestartSock]
               /\ reopens' = [reopens EXCEPT ![a] = @ + 1]
               /\ UNCHANGED <<activeLogin, wresult, wlogin, wrace>>
          [] o = "failed" ->
               \* lines 251-254
               /\ Returns(w, WaitResult(FALSE, FailedMessage(login)))
               /\ sockState' = resetActiveLogin(sockState, logins)
               /\ activeLogin' = NoLogin
               /\ UNCHANGED <<logins, reopens>>
          [] o = "connected" ->
               \* lines 257-261
               /\ Returns(w, WaitResult(TRUE, <<"linked">>))
               /\ sockState' = resetActiveLogin(sockState, logins)
               /\ activeLogin' = NoLogin
               /\ UNCHANGED <<logins, reopens>>
          [] o = "ended" ->
               \* line 264
               /\ Returns(w, WaitResult(FALSE, <<"ended without a connection">>))
               /\ UNCHANGED <<shared, reopens>>
  /\ UNCHANGED <<sockVars, qrInTime, creds, optsForce, now, startVars>>

\* Lines 238-243: logoutWeb has cleared the stored credentials.
WaitLoggedOut(w) ==
  /\ Quiet
  /\ wpc[w] = "logout"
  /\ Returns(w, WaitResult(FALSE, <<"logged out">>))
  /\ creds' = FALSE
  /\ sockState' = resetActiveLogin(sockState, logins)
  /\ activeLogin' = NoLogin
  /\ UNCHANGED <<logins, sockVars, qrInTime, optsForce, now, startVars, reopens>>

\* A restart that swaps the socket and leaves error and errorStatus set.
Restarted_KeepsError(login, sock) ==
  [login EXCEPT !.sock = sock, !.connected = FALSE, !.waitPromise = sock]

\* The attempt after lines 86-90.
Restarted(login, sock) ==
  [login EXCEPT !.sock = sock, !.connected = FALSE, !.error = NoError,
                !.errorStatus = NoStatus, !.waitPromise = sock]

\* Lines 86-91 and 247-254: createWaSocket resolved in restartLoginSocket.
\* Fresh: loop back (line 212 finds the deadline passed, or the race is
\* entered again).  Stale: the generic failure.
WaitReopened(w) ==
  /\ Quiet
  /\ wpc[w] = "reopening"
  /\ sockState[wsock[w]] = "opening"
  /\ LET a == wlogin[w]
         h == wsock[w]
         lg == [logins EXCEPT ![a] = Restarted(@, h)]
         ss == [sockState EXCEPT ![h] = "open"] IN
     /\ logins' = lg
     /\ waiter' = attachLoginWaiter(waiter, a, h)
     /\ IF isLoginFresh(lg[a])
          THEN /\ \/ /\ wpc' = [wpc EXCEPT ![w] = "racing"]
                     /\ wrace' = [wrace EXCEPT ![w] = lg[a].waitPromise]
                     /\ UNCHANGED <<wresult, wlogin, wsock>>
                  \/ Returns(w, WaitResult(FALSE, <<"still waiting">>))
               /\ sockState' = ss
               /\ UNCHANGED activeLogin
          ELSE /\ Returns(w, WaitResult(FALSE, FailedMessage(lg[a])))
               /\ sockState' = resetActiveLogin(ss, lg)
               /\ activeLogin' = NoLogin
  /\ UNCHANGED <<settled, readyOk, qrEmitted, qrInTime, creds, optsForce, now, startVars, reopens>>

\* Lines 92-96 and 251-254: createWaSocket rejected in restartLoginSocket.
WaitReopenFailed(w) ==
  /\ Quiet
  /\ wpc[w] = "reopening"
  /\ sockState[wsock[w]] = "opening"
  /\ LET a == wlogin[w]
         lg == [logins EXCEPT ![a].error = formatError(OpenErr),
                              ![a].errorStatus = getStatusCode(OpenErr)] IN
     /\ logins' = lg
     /\ Returns(w, WaitResult(FALSE, FailedMessage(lg[a])))
     /\ sockState' = [resetActiveLogin(sockState, lg) EXCEPT ![wsock[w]] = "failed"]
     /\ activeLogin' = NoLogin
  /\ UNCHANGED <<sockVars, qrInTime, creds, optsForce, now, startVars, reopens>>

\* ------------------------------------------------------------------ time
Tick ==
  /\ Quiet
  /\ now < MaxTicks * TickMs
  /\ now' = now + TickMs
  /\ UNCHANGED <<shared, sockVars, qrInTime, creds, optsForce, startVars, waitVars, reopens>>

Next ==
  \/ \E s \in Starts : StartCall(s)
  \/ \E s \in Starts : StartInstall(s)
  \/ \E s \in Starts : StartOpenFailed(s)
  \/ \E s \in Starts : QrTimerFires(s)
  \/ \E s \in Starts : OnQr(s)
  \/ \E s \in Starts : StartQrSettled(s)
  \/ \E s \in Starts : StartRendered(s)
  \/ \E h \in Socks : ReadyFulfils(h)
  \/ \E h \in Socks : ReadyRejects(h)
  \/ \E w \in Waits : WaitCall(w)
  \/ \E w \in Waits : WaitTimeout(w)
  \/ \E w \in Waits : WaitSettled(w)
  \/ \E w \in Waits : WaitLoggedOut(w)
  \/ \E w \in Waits : WaitReopened(w)
  \/ \E w \in Waits : WaitReopenFailed(w)
  \/ Tick

Spec == Init /\ [][Next]_vars

\* What the event loop and the collaborators guarantee to the calls in
\* progress: a call whose awaited promise has settled is resumed
\* (StartQrSettled, WaitSettled), the deadline timer of a race fires
\* (WaitTimeout), logoutWeb returns (WaitLoggedOut), and the createWaSocket
\* call of the restart path resolves or rejects (WaitReopened,
\* WaitReopenFailed): while one of these is due, one of them happens.
\* Nothing is assumed of the ready signal, the linking codes or the callers.
Resumption ==
  \/ \E s \in Starts : StartQrSettled(s)
  \/ \E w \in Waits :
       \/ WaitSettled(w)
       \/ WaitTimeout(w)
       \/ WaitLoggedOut(w)
       \/ WaitReopened(w)
       \/ WaitReopenFailed(w)

Fairness == WF_vars(Resumption)

FairSpec == Spec /\ Fairness

\* Executions in which public calls do not overlap: a call is made only
\* when every earlier call has returned.
InProgress ==
  Cardinality({s \in Starts : spc[s] \notin {"idle", "done"}})
    + Cardinality({w \in Waits : wpc[w] \notin {"idle", "done"}})

NonOverlapping == InProgress = 0

SeqNext ==
  \/ \E s \in Starts : NonOverlapping /\ StartCall(s)
  \/ \E w \in Waits : NonOverlapping /\ WaitCall(w)
  \/ \E s \in Starts : StartInstall(s)
  \/ \E s \in Starts : StartOpenFailed(s)
  \/ \E s \in Starts : QrTimerFires(s)
  \/ \E s \in Starts : OnQr(s)
  \/ \E s \in Starts : StartQrSettled(s)
  \/ \E s \in Starts : StartRendered(s)
  \/ \E h \in Socks : ReadyFulfils(h)
  \/ \E h \in Socks : ReadyRejects(h)
  \/ \E w \in Waits : WaitTimeout(w)
  \/ \E w \in Waits : WaitSettled(w)
  \/ \E w \in Waits : WaitLoggedOut(w)
  \/ \E w \in Waits : WaitReopened(w)
  \/ \E w \in Waits : WaitReopenFailed(w)
  \/ Tick

SeqSpec == Init /\ [][SeqNext]_vars

\* ================================================================ claims
Created(a) == logins[a].id # NoLogin
StartCalled(s) == spc[s] = "idle" /\ spc'[s] # "idle"
WaitCalled(w) == wpc[w] = "idle" /\ wpc'[w] # "idle"

\* C1: a start call that is not answered "already linked" while the slot
\* holds a fresh attempt with a rendered artifact returns exactly that
\* artifact and changes nothing: no socket is opened or closed, and the slot
\* and every attempt object stay as they are.  Every such call does so.
C1_ReuseIsNoOp ==
  [][\A s \in Starts :
       ( /\ StartCalled(s)
         /\ sresult'[s].kind # "alreadyLinked"
         /\ activeLogin # NoLogin
         /\ now - logins[activeLogin].startedAt < ACTIVE_LOGIN_TTL_MS
         /\ logins[activeLogin].qrDataUrl # NoArtifact )
       => /\ spc'[s] = "done"
          /\ sresult'[s] = [kind |-> "reused", qrDataUrl |-> logins[activeLogin].qrDataUrl]
          /\ UNCHANGED <<activeLogin, logins, sockState, waiter, settled, readyOk, creds>>
    ]_vars

\* A start call has returned a reused artifact while that attempt is in the slot.
C1_Witness ==
  \E s \in Starts :
    /\ spc[s] = "done"
    /\ sresult[s].kind = "reused"
    /\ activeLogin # NoLogin
    /\ sresult[s].qrDataUrl = logins[activeLogin].qrDataUrl

\* C2: when the continuation attached for attempt a runs (the ready signal
\* of its socket settles), an attempt object changes only if it is the one
\* in the slot and its id is a, and then only in connected, error and
\* errorStatus; with the slot empty or holding another attempt nothing changes.
C2_IdentityGuardedContinuation ==
  [][\A h \in Socks :
       (~settled[h] /\ settled'[h])
       => /\ activeLogin' = activeLogin
          /\ \A b \in Starts :
               \/ logins'[b] = logins[b]
               \/ /\ b = activeLogin
                  /\ Created(b)
                  /\ logins[b].id = waiter[h]
                  /\ logins'[b] = [logins[b] EXCEPT !.connected = logins'[b].connected,
                                                     !.error = logins'[b].error,
                                                     !.errorStatus = logins'[b].errorStatus]
    ]_vars

\* The ready signal of an attempt's own socket fulfilled and the attempt is
\* not marked connected: its continuation ran when the attempt was no
\* longer in the slot.
C2_Witness ==
  \E h \in Socks :
    /\ readyOk[h]
    /\ waiter[h] # NoLogin
    /\ logins[waiter[h]].sock = h
    /\ ~logins[waiter[h]].connected
    /\ activeLogin # NoLogin
    /\ activeLogin # waiter[h]

\* C3: the restart path calls createWaSocket at most once per attempt,
\* over all wait calls on it; restartAttempted is never reset; and a wait
\* call that finds status 515 with restartAttempted already set opens no
\* socket, resets the slot and returns connected:false with the failure
\* message.
C3_OneRestartPerAttempt ==
  [][ /\ \A a \in Starts : reopens'[a] <= 1
      /\ \A a \in Starts :
           (Created(a) /\ logins[a].restartAttempted) => logins'[a].restartAttempted
      /\ \A a \in Starts :
           (Created(a) /\ reopens'[a] > reopens[a]) =>
              ~logins[a].restartAttempted /\ logins'[a].restartAttempted
      /\ \A w \in Waits :
           ( /\ wpc[w] = "racing" /\ wpc'[w] # "racing"
             /\ settled[wrace[w]]
             /\ logins[wlogin[w]].error # NoError
             /\ logins[wlogin[w]].errorStatus = RestartRequired
             /\ logins[wlogin[w]].restartAttempted )
           => /\ wpc'[w] = "done"
              /\ wresult'[w] = WaitResult(FALSE, FailedMessage(logins[wlogin[w]]))
              /\ activeLogin' = NoLogin
              /\ reopens' = reopens
              /\ \A h \in Socks : sockState'[h] = "opening" => sockState[h] = "opening"
    ]_vars

\* A wait call has returned the failure message of a 515 rejection for an
\* attempt that had been restarted.
C3_Witness ==
  \E w \in Waits, a \in Starts :
    /\ wpc[w] = "done"
    /\ reopens[a] = 1
    /\ wresult[w] = WaitResult(FALSE,
         <<"WhatsApp login failed", formatError([kind |-> "conn", status |-> RestartRequired])>>)

\* C4: a wait call that met a first 515, whose reopen succeeded while the
\* attempt was fresh, and which then sees the new socket's ready signal
\* fulfilled before its deadline, returns connected:true with the success
\* message.
C4_RestartThenSuccess ==
  [][\A w \in Waits :
       ( /\ wpc[w] = "racing" /\ wpc'[w] # "racing"
         /\ wsock[w] # NoSock
         /\ wrace[w] = wsock[w]
         /\ readyOk[wrace[w]] )
       => /\ wpc'[w] = "done"
          /\ wresult'[w] = WaitResult(TRUE, <<"linked">>)
    ]_vars

\* C5: a wait call that finds the logged-out status clears the stored
\* credentials without restarting, and when it returns the logged-out
\* message the slot is empty and the polled attempt's socket is closed.
C5_LoggedOutIsTerminal ==
  [][\A w \in Waits :
       /\ ( /\ wpc[w] = "racing" /\ wpc'[w] # "racing"
            /\ settled[wrace[w]]
            /\ logins[wlogin[w]].error # NoError
            /\ logins[wlogin[w]].errorStatus = LoggedOut )
          => wpc'[w] = "logout" /\ reopens' = reopens
       /\ (wpc[w] = "logout" /\ wpc'[w] # "logout")
          => /\ wpc'[w] = "done"
             /\ wresult'[w] = WaitResult(FALSE, <<"logged out">>)
             /\ ~creds'
             /\ activeLogin' = NoLogin
             /\ sockState'[logins'[wlogin[w]].sock] = "closed"
    ]_vars

\* C6: a wait call made while the slot holds an attempt with
\* now - startedAt >= TTL returns the expired message at once, closes that
\* attempt's socket and no other, and empties the slot, whatever the
\* attempt's connected and error fields; a wait call made with the slot
\* empty returns the no-login message and closes nothing.
C6_LazyExpiry ==
  [][\A w \in Waits :
       /\ ( /\ WaitCalled(w)
            /\ activeLogin # NoLogin
            /\ now - logins[activeLogin].startedAt >= ACTIVE_LOGIN_TTL_MS )
          => /\ wpc'[w] = "done"
             /\ wresult'[w] = WaitResult(FALSE, <<"expired">>)
             /\ activeLogin' = NoLogin
             /\ sockState' = [sockState EXCEPT ![logins[activeLogin].sock] = "closed"]
             /\ logins' = logins
       /\ (WaitCalled(w) /\ activeLogin = NoLogin)
          => /\ wpc'[w] = "done"
             /\ wresult'[w] = WaitResult(FALSE, <<"no active login">>)
             /\ UNCHANGED <<activeLogin, logins, sockState>>
    ]_vars

\* A wait call found a stale attempt whose socket was open and which was
\* marked connected or failed, disposed it, and the next wait call found
\* the slot empty.
C6_Witness ==
  /\ wpc[1] = "done" /\ wresult[1] = WaitResult(FALSE, <<"expired">>)
  /\ wpc[2] = "done" /\ wresult[2] = WaitResult(FALSE, <<"no active login">>)
  /\ activeLogin = NoLogin
  /\ \E a \in Starts :
       /\ Created(a)
       /\ sockState[logins[a].sock] = "closed"
       /\ logins[a].connected \/ logins[a].error # NoError

StillWaiting == WaitResult(FALSE, <<"still waiting">>)
ReturnsStillWaiting(w) == wpc[w] # "done" /\ wpc'[w] = "done" /\ wresult'[w] = StillWaiting

C8_NoDanglingAfterFailedStart ==
  [][\A s \in Starts :
       (spc[s] # "done" /\ spc'[s] = "done" /\ sresult'[s].kind = "failed")
       => /\ activeLogin' = NoLogin
          /\ sockState'[s] \in {"closed", "failed"}
    ]_vars

\* C9: a start call whose createWaSocket succeeded and whose onQr callback
\* was invoked before qrTimer fired returns a newly rendered artifact, and
\* the attempt in the slot holds that linking code and that artifact.
C9_CodeDeliveredMeansArtifact ==
  [][\A s \in Starts :
       (spc[s] \in {"awaitQr", "render"} /\ spc'[s] = "done" /\ qrInTime[s])
       => /\ sresult'[s].kind = "new"
          /\ activeLogin' # NoLogin
          /\ logins'[activeLogin'].qrDataUrl = sresult'[s].qrDataUrl
          /\ QrDataUrl(logins'[activeLogin'].qr) = sresult'[s].qrDataUrl
    ]_vars

\* C10: a start call that has returned has returned one of the four
\* results, a call in progress has returned nothing, and a call in progress
\* always has something to wake it: the pending createWaSocket, a settled
\* qrPromise or the armed qrTimer, the rendering.
StartResults == {"alreadyLinked", "reused", "new", "failed"}

C10_StartNeverRaises ==
  \A s \in Starts :
    /\ spc[s] = "done" => sresult[s].kind \in StartResults
    /\ spc[s] # "done" => sresult[s] = NoResult
    /\ spc[s] = "opening" => sockState[s] = "opening"
    /\ spc[s] = "awaitQr" => qrPromise[s].state # "pending" \/ qrTimer[s] = "armed"
    /\ spc[s] = "render" => qrPromise[s].state = "resolved"
    /\ (spc[s] = "done" /\ sresult[s].kind \in {"reused", "new"})
         => sresult[s].qrDataUrl # NoArtifact

\* One start call returned the open failure and the other the QR timeout.
C10_Witness ==
  \E s, r \in Starts :
    /\ spc[s] = "done" /\ sresult[s] = [kind |-> "failed", why |-> "open"]
    /\ spc[r] = "done" /\ sresult[r] = [kind |-> "failed", why |-> "qr"]

NewlyClosed(h) == sockState[h] # "closed" /\ sockState'[h] = "closed"

\* C11: every disposal hits the operation's own attempt.  A wait call that
\* returns success, logged-out or the generic failure closes no socket but
\* the polled attempt's and changes the slot only if it held the polled
\* attempt; a start call that returns a failure closes no socket but the one
\* of the attempt it installed and changes the slot only if it held that
\* attempt.
C11_DisposalHitsOwnAttempt ==
  [][ /\ \A w \in Waits :
           ( /\ wpc[w] \in {"racing", "logout", "reopening"}
             /\ wpc'[w] = "done"
             /\ wresult'[w] # StillWaiting
             /\ wresult'[w] # WaitResult(FALSE, <<"ended without a connection">>) )
           => /\ \A h \in Socks : NewlyClosed(h) => h = logins'[wlogin[w]].sock
              /\ activeLogin' # activeLogin => activeLogin = wlogin[w]
      /\ \A s \in Starts :
           (spc[s] # "done" /\ spc'[s] = "done" /\ sresult'[s].kind = "failed")
           => /\ \A h \in Socks : NewlyClosed(h) => Created(s) /\ h = logins[s].sock
              /\ activeLogin' # activeLogin => activeLogin = s
    ]_vars

\* Calls that have been issued and have not returned.
StartsInProgress == {s \in Starts : spc[s] \notin {"idle", "done"}}
WaitsInProgress == {w \in Waits : wpc[w] \notin {"idle", "done"}}
NoCallInProgress == StartsInProgress = {} /\ WaitsInProgress = {}

\* C12: whenever no start or wait call is in progress, every socket that
\* was opened and has not been closed is the socket of the attempt in the
\* slot.
C12_NoLeakedSocket ==
  NoCallInProgress =>
    \A h \in Socks :
      sockState[h] = "open" => activeLogin # NoLogin /\ logins[activeLogin].sock = h

\* C13: a start call made without force while credentials are stored
\* returns the already-linked message at once: no socket is opened or
\* closed, no continuation is attached, and the slot, every attempt object
\* and the credentials stay as they are, whatever the slot holds.
C13_AlreadyLinkedShortCircuit ==
  [][\A s \in Starts :
       (StartCalled(s) /\ creds /\ ~optsForce')
       => /\ spc'[s] = "done"
          /\ sresult'[s] = [kind |-> "alreadyLinked"]
          /\ UNCHANGED <<activeLogin, logins, sockState, waiter, settled, readyOk,
                         qrEmitted, creds, qrPromise, qrTimer>>
    ]_vars

\* A start call was answered "already linked" while the slot holds an
\* attempt whose socket is open and which has no artifact yet.
C13_Witness ==
  \E s \in Starts :
    /\ spc[s] = "done"
    /\ sresult[s].kind = "alreadyLinked"
    /\ ~optsForce
    /\ activeLogin # NoLogin
    /\ sockState[logins[activeLogin].sock] = "open"
    /\ logins[activeLogin].qrDataUrl = NoArtifact

\* C14: no attempt object ever has connected = TRUE together with an error.
C14_TerminalMarkersExclusive ==
  \A a \in Starts :
    Created(a) => ~(logins[a].connected /\ logins[a].error # NoError)

\* An attempt that had failed with 515 was restarted and is now marked
\* connected by the continuation of its second socket.
C14_Witness ==
  \E a \in Starts :
    /\ Created(a)
    /\ reopens[a] = 1
    /\ logins[a].connected
    /\ readyOk[logins[a].sock]
    /\ logins[a].sock # a

Ended == WaitResult(FALSE, <<"ended without a connection">>)

\* C15 as stated: no wait call ever returns the 'ended without a
\* connection' result.
C15_AsStated == \A w \in Waits : wresult[w] # Ended

\* C15 (amended): a wait call returns the 'ended without a connection'
\* result only when the attempt it polls is no longer in the slot at the
\* moment its completion signal has resolved; while the polled attempt is
\* still in the slot the result is never returned.  The returning step
\* closes no socket and leaves the slot as it is.
C15_EndedOnlyWhenSuperseded ==
  [][\A w \in Waits :
       /\ (wpc[w] # "done" /\ wpc'[w] = "done" /\ wresult'[w] = Ended)
          => /\ wpc[w] = "racing"
             /\ settled[wrace[w]]
             /\ activeLogin # wlogin[w]
             /\ ~logins[wlogin[w]].connected
             /\ logins[wlogin[w]].error = NoError
             /\ UNCHANGED <<activeLogin, logins, sockState>>
       /\ (wpc[w] = "racing" /\ settled[wrace[w]] /\ activeLogin = wlogin[w])
          => wresult'[w] # Ended
    ]_vars

\* A wait call has returned the 'ended without a connection' result.
C15_Witness == \E w \in Waits : wpc[w] = "done" /\ wresult[w] = Ended

\* C16: a linking code stored on an attempt was emitted by the socket that
\* attempt was created with, and when a start call returns a newly rendered
\* artifact the slot holds the attempt this call created and that attempt's
\* stored code is the one rendered in the artifact.
C16_ArtifactOfLiveAttempt ==
  [][ /\ \A a \in Starts :
           (Created(a)' /\ logins'[a].qr # NoQr) => logins'[a].qr[1] = a
      /\ \A s \in Starts :
           (spc[s] # "done" /\ spc'[s] = "done" /\ sresult'[s].kind = "new")
           => /\ activeLogin' = s
              /\ QrDataUrl(logins'[s].qr) = sresult'[s].qrDataUrl
    ]_vars

Linked == WaitResult(TRUE, <<"linked">>)

\* C17: an attempt's connected flag becomes TRUE only in the step in which
\* the ready signal of its current socket fulfils while it is in the slot;
\* a restart leaves it FALSE; and a wait call returns connected:true only
\* with the success message, for a polled attempt that is marked connected,
\* has no error and whose current socket's ready signal fulfilled, and the
\* slot is empty when it returns.
C17_ConnectedIsSound ==
  [][ /\ \A a \in Starts :
           (Created(a) /\ ~logins[a].connected /\ logins'[a].connected)
           => /\ activeLogin = a
              /\ ~readyOk[logins[a].sock]
              /\ readyOk'[logins[a].sock]
      /\ \A w \in Waits :
           (wpc[w] = "reopening" /\ wpc'[w] # "reopening")
           => ~logins'[wlogin[w]].connected
      /\ \A w \in Waits :
           (wpc[w] # "done" /\ wpc'[w] = "done" /\ wresult'[w].connected)
           => /\ wresult'[w] = Linked
              /\ wpc[w] = "racing"
              /\ logins[wlogin[w]].connected
              /\ logins[wlogin[w]].error = NoError
              /\ readyOk[logins[wlogin[w]].sock]
              /\ wrace[w] = logins[wlogin[w]].sock
              /\ activeLogin' = NoLogin
    ]_vars

\* A wait call returned connected:true for an attempt that had been
\* restarted: the ready signal of its first socket had rejected, that of
\* its second socket fulfilled.
C17_Witness ==
  \E w \in Waits, a \in Starts :
    /\ wpc[w] = "done" /\ wresult[w] = Linked
    /\ reopens[a] = 1
    /\ logins[a].connected
    /\ ~readyOk[a]
    /\ readyOk[logins[a].sock]
    /\ activeLogin = NoLogin

C19_FailedRestartIsTerminal ==
  [][\A w \in Waits :
       /\ ( /\ wpc[w] = "reopening" /\ wpc'[w] # "reopening"
            /\ now - logins[wlogin[w]].startedAt >= ACTIVE_LOGIN_TTL_MS )
          => wpc'[w] = "done" /\ wresult'[w] # StillWaiting
       /\ (wpc[w] = "reopening" /\ wpc'[w] = "done" /\ wresult'[w] # StillWaiting)
          => /\ wresult'[w] = WaitResult(FALSE, FailedMessage(logins'[wlogin[w]]))
             /\ activeLogin' = NoLogin
             /\ sockState'[wlogin[w]] = "closed"
             /\ sockState'[wsock[w]] \in {"closed", "failed"}
             /\ sockState'[logins'[wlogin[w]].sock] = "closed"
    ]_vars

\* C20: in an execution whose public calls do not overlap, at most one
\* socket is open or being opened in every state: a start call has closed
\* the prior attempt's socket and cleared the slot when it calls
\* createWaSocket, and the restart path has closed the old socket when it
\* calls createWaSocket; and every such socket belongs to the call in
\* progress or to the attempt in the slot.
Live == {h \in Socks : sockState[h] \in {"opening", "open"}}

C20_CloseBeforeOpen ==
  /\ Cardinality(Live) <= 1
  /\ \A s \in Starts : spc[s] = "opening" => activeLogin = NoLogin /\ Live = {s}
  /\ \A w \in Waits : wpc[w] = "reopening" => Live = {wsock[w]}

\* The first attempt failed with 515, was restarted, and was then
\* superseded by the next start call: both its sockets are closed and the
\* new call's socket is the only live one.
C20_Witness ==
  /\ Created(1)
  /\ reopens[1] = 1
  /\ sockState[1] = "closed"
  /\ sockState[logins[1].sock] = "closed"
  /\ logins[1].sock # 1
  /\ sockState[2] = "open"
  /\ activeLogin = 2

====
